---- MODULE Spec2Model ----
(***************************************************************************)
(* A model of the ReAct agent's plan -> reflect -> execute pipeline:       *)
(*   Agent.execute                  (src/src/react/agent.py)               *)
(*   ReflectionEngine.reflect_and_improve                                  *)
(*                                  (src/src/react/reflection_engine.py)   *)
(*   PlanExecutor.execute_plan      (src/src/react/plan_executor.py)       *)
(*   StateManager                   (src/src/memory/interaction_history.py)*)
(* The language model, the safety classifier and the tools are external:   *)
(* every response they can give is a nondeterministic input.  Each action  *)
(* is one blocking call together with the code that runs up to the next    *)
(* blocking call.                                                          *)
(***************************************************************************)
EXTENDS Integers, Sequences, FiniteSets

(***************************************************************************)
(* Bounds of the model.                                                    *)
(***************************************************************************)
\* largest max_reflection_iterations passed to execute / reflect_and_improve
MaxIter == 2
\* longest tool_calls list of a plan
MaxCalls == 3
\* most interactions added to the shared history before an operation starts
MaxEarlier == 1
\* most interactions another thread adds to the shared history during a call
MaxOther == 1
\* longest tool_calls list of an initial plan returned to Agent.execute
MaxAgentCalls == 2

(***************************************************************************)
(* Values.                                                                 *)
(***************************************************************************)
\* the query of the call under study; "q0" is the query of an interaction an
\* earlier call left in the shared history (EarlierInteraction)
UserQueries == {"q1"}

\* the names a plan can mention; which of them are registered is state
ToolNames == {"google_search", "wikipedia_search"}

\* a JSON key that is missing from a parsed object
Absent == "absent"

\* max_reflection_iterations is an unchecked int: negative values included
IterationArgs == (0 - 1)..MaxIter

CallSeqs == UNION {[1..n -> ToolNames] : n \in 0..MaxCalls}

\* A parsed plan object (wire schema of the planner).  has_tool_calls says
\* whether the key tool_calls is present; requires_tools and direct_response
\* are Absent when the key is missing.
MkPlan(rt, dr, has, calls) ==
    [requires_tools |-> rt, direct_response |-> dr,
     has_tool_calls |-> has, tool_calls |-> calls]

\* the object parsed from "{}"
EmptyPlan == MkPlan(Absent, Absent, FALSE, <<>>)

DirectPlans == {MkPlan("false", d, FALSE, <<>>) : d \in {"d1", Absent}}

ToolPlans == {MkPlan("true", Absent, TRUE, c) : c \in CallSeqs}

\* requires_tools missing (defaults differ between Agent and PlanExecutor)
NoFlagPlans == {EmptyPlan, MkPlan(Absent, Absent, TRUE, <<"google_search">>)}

\* requires_tools = true but no tool_calls key
NoCallsPlan == MkPlan("true", Absent, FALSE, <<>>)

Plans == DirectPlans \cup ToolPlans \cup NoFlagPlans \cup {NoCallsPlan}

\* the plans a revision request is answered with: a direct answer, the
\* empty object, and a one-call plan per tool
RevisedPlans ==
    {MkPlan("false", "d1", FALSE, <<>>), EmptyPlan}
    \cup {MkPlan("true", Absent, TRUE, <<t>>) : t \in ToolNames}

\* What a get_plan call can produce: the call raises; it returns the empty
\* value ({} of the JSONDecodeError branch, or an empty content string);
\* it returns non-empty content that is not JSON; it returns JSON content
\* (an object: the request asks for response_format json_object).
PlanResponses(S) ==
    {[kind |-> k, plan |-> EmptyPlan] : k \in {"raise", "empty", "garbage"}}
    \cup {[kind |-> "json", plan |-> p] : p \in S}

\* A parsed critique object.
MkVerdict(rc, text) == [requires_changes |-> rc, reflection |-> text]

Verdicts == {MkVerdict(rc, "r1") : rc \in {"true", "false", Absent}}

\* SyntheticVerdict as a verdict that asks for changes
SyntheticVerdictAsksChanges == [requires_changes |-> "true", reflection |-> "Reflection failed due to error"]

\* the verdict the except-branch of a reflection iteration records
SyntheticVerdict == MkVerdict("false", "Reflection failed due to error")

VerdictResponses ==
    {[kind |-> k, verdict |-> SyntheticVerdict] : k \in {"raise", "empty", "garbage"}}
    \cup {[kind |-> "json", verdict |-> v] : v \in Verdicts}

\* The classifier's answer, as its sequence of tokens.
Classifications == {<<"safe">>, <<"unsafe", "S1">>, <<"safe", "unsafe">>}

SafetyResponses ==
    {[kind |-> "raise", content |-> <<>>]}
    \cup {[kind |-> "ok", content |-> c] : c \in Classifications}

\* What invoking a registered tool can produce (tool.func(**kwargs)):
\*   google_search: the dict with enriched_results, each with its summary
\*     ("enriched"); the same dict with an entry that has no summary, kept by
\*     the except-branch when scraping or summarising it failed
\*     ("unsummarised"); the tuple (error_json, {}) of a failed search; or an
\*     exception (transport error other than HTTPStatusError, or arguments
\*     that do not fit);
\*   wikipedia_search: the dict with summary, None, or an exception
\*     (arguments that do not fit).
ToolOutcomes(name) ==
    IF name = "google_search"
    THEN {"enriched", "unsummarised", "error_tuple", "raise"}
    ELSE {"summary", "None", "raise"}

\* Python truthiness of a tool's return value
Truthy(outcome) == outcome \in {"enriched", "unsummarised", "error_tuple", "summary"}

(***************************************************************************)
(* Return values of the three operations.                                  *)
(***************************************************************************)
\* type: what the caller receives ("str", "dict", "None", or "raise" when an
\* exception escapes); value: its text; status: its status key; exception:
\* the statement whose exception ended the operation ("none" if none did).
Pending == [type |-> "pending", value |-> <<>>, status |-> Absent, exception |-> "none"]
RetStr(v) == [type |-> "str", value |-> v, status |-> Absent, exception |-> "none"]
RetDict(v, s) == [type |-> "dict", value |-> v, status |-> s, exception |-> "none"]
\* the except-branch of Agent.execute logs and falls off the end: None
RetNone(e) == [type |-> "None", value |-> <<>>, status |-> Absent, exception |-> e]
\* RetRaise with the exception swallowed: the caller receives None
RetRaiseSwallowed(e) == [type |-> "None", value |-> <<>>, status |-> Absent, exception |-> e]

\* the exception leaves the operation
RetRaise(e) == [type |-> "raise", value |-> <<>>, status |-> Absent, exception |-> e]

HarmfulMessage == <<"the answer contains harmful content.">>
NoInfoMessage == <<"I couldn't find any relevant information. Please try again with a different query.">>

(***************************************************************************)
(* State.                                                                  *)
(***************************************************************************)
VARIABLES
    tools,               \* Agent.tools / PlanExecutor.tools_registry (names)
    agent_history,       \* Agent.interaction_history
    sm_history,          \* state_manager.interaction_history (singleton)
    now,                 \* the clock read by datetime.now()
    stamp,               \* a clock value read for an Interaction not yet added
    other_stamp,         \* the same, of the other thread
    op,                  \* the operation in progress
    pc,                  \* its position
    user_query,          \* argument user_query
    max_iter,            \* argument max_reflection_iterations
    initial_plan,        \* local initial_plan (argument plan of execute_plan)
    current_plan,        \* local current_plan / final_plan
    reflection_history,  \* local reflection_history
    iteration,           \* iterations of the reflection loop started so far
    verdict,             \* local reflection_result of the running iteration
    classification,      \* local result: the answer of safety_check
    idx,                 \* position in tool_calls (1-based)
    results,             \* local results / tool_results
    invoked,             \* positions of tool_calls whose tool was invoked
    trace,               \* the external calls issued by the operation
    critique_prompt,     \* the reflection prompt of the last critique call
    plan_messages,       \* the messages of the last get_plan call
    synth_prompt,        \* the prompt of the last synthesis call
    ret                  \* what the operation returned

vars == <<tools, agent_history, sm_history, now, stamp, other_stamp, op, pc, user_query, max_iter,
          initial_plan, current_plan, reflection_history, iteration, verdict,
          classification, idx, results, invoked, trace, critique_prompt,
          plan_messages,
          synth_prompt, ret>>

\* no clock value is held
NoStamp == 0 - 1

Count(s, x) == Cardinality({i \in 1..Len(s) : s[i] = x})

\* dataclass Interaction(timestamp, query, plan)
Interaction(ts, q, p) == [timestamp |-> ts, query |-> q, plan |-> p]

\* xs with the plan and timestamp of its last entry replaced
SetLast(xs, p, ts) ==
    [xs EXCEPT ![Len(xs)] = [@ EXCEPT !.plan = p, !.timestamp = ts]]

\* xs with only the plan of its last entry replaced
SetLastPlan(xs, p) == [xs EXCEPT ![Len(xs)] = [@ EXCEPT !.plan = p]]

NoPrompt == [kind |-> "none", user_query |-> "none", generated_plan |-> EmptyPlan]
NoMessages ==
    [kind |-> "none", user_query |-> "none", plan |-> EmptyPlan,
     feedback |-> SyntheticVerdict]
NoSynthPrompt == [kind |-> "none", original_query |-> "none"]

Init ==
    /\ tools = {}
    /\ agent_history = <<>>
    /\ sm_history = <<>>
    /\ now = 0
    /\ stamp = NoStamp
    /\ other_stamp = NoStamp
    /\ op = "none"
    /\ pc = "idle"
    /\ user_query = "none"
    /\ max_iter = 0
    /\ initial_plan = EmptyPlan
    /\ current_plan = EmptyPlan
    /\ reflection_history = <<>>
    /\ iteration = 0
    /\ verdict = SyntheticVerdict
    /\ classification = <<>>
    /\ idx = 0
    /\ results = <<>>
    /\ invoked = <<>>
    /\ trace = <<>>
    /\ critique_prompt = NoPrompt
    /\ plan_messages = NoMessages
    /\ synth_prompt = NoSynthPrompt
    /\ ret = Pending

locals == <<user_query, max_iter, initial_plan, current_plan,
            reflection_history, iteration, verdict, idx, results, invoked>>

prompts == <<critique_prompt, plan_messages, synth_prompt>>

stamps == <<stamp, other_stamp>>

\* Agent.add_tool: tools are registered at start-up, before any query
add_tool(name) ==
    /\ pc = "idle"
    /\ name \notin tools
    /\ tools' = tools \cup {name}
    /\ UNCHANGED <<classification, agent_history, sm_history, now, stamps, op, pc,
                   locals, trace, prompts, ret>>

(***************************************************************************)
(* Helpers shared by the operations.                                       *)
(***************************************************************************)
\* HasUnsafe as a comparison with the bare word would be
HasUnsafeWholeAnswer(result) == result = <<"unsafe">>

\* `"unsafe" in result`: the substring test of Agent.execute, on tokens
HasUnsafe(result) == \E i \in 1..Len(result) : result[i] = "unsafe"

\* GetRequiresTools with the direct-answer test left out
GetRequiresToolsIgnored(plan) == TRUE

\* plan.get("requires_tools", True), as the truth value `not` tests
GetRequiresTools(plan) == plan.requires_tools # "false"

\* GetRequiresChanges with the convergence test inverted
GetRequiresChangesInverted(v) == v.requires_changes # "true"

\* reflection_result.get("requires_changes", False), as a truth value
GetRequiresChanges(v) == v.requires_changes = "true"

\* LoopContinues with an inclusive upper end
LoopContinuesInclusive(i, m) == i <= m

\* LoopContinues as a loop that tests its bound after the first iteration
LoopAtLeastOnce(i, m) == i < m \/ i = 0

\* `for iteration in range(max_reflection_iterations)`: whether the loop
\* runs another iteration after i of them
LoopContinues(i, m) == i < m

\* LoopExits of a loop that is never left
LoopExitsNever(p, i, m) == FALSE

\* LoopExits without the test that the loop is over
LoopExitsAnyTime(p, i, m) == p \in {"finalize", "loop"}

\* the code after the reflection loop is reached: by `break` (position
\* "finalize") or when range(max_reflection_iterations) is used up
LoopExits(p, i, m) == p = "finalize" \/ (p = "loop" /\ ~LoopContinues(i, m))

\* Collect that puts the new result first
CollectFirst(rs, x) == <<x>> \o rs

\* results.append(result) / tool_results.append({...}) of the tool loops
Collect(rs, x) == Append(rs, x)

\* AddInteraction that puts the new interaction first
AddInteractionFirst(history, interaction) == <<interaction>> \o history

\* self.interaction_history.append(interaction) of StateManager
AddInteraction(history, interaction) == Append(history, interaction)

\* KeptOrRevised that takes whatever the call gave as the new plan
AlwaysRevised(current, r) == r.plan

\* the current plan after a revision call: `current_plan = revised_plan` is
\* reached only when the answer was not empty and json.loads parsed it
KeptOrRevised(current, r) == IF r.kind = "json" THEN r.plan ELSE current

\* PlanParses that takes every answer for a plan
PlanParsesAlways(r) == TRUE

\* initial_plan = json.loads(initial_plan) succeeds (and get_plan returned)
PlanParses(r) == r.kind = "json"

\* truth value of a parsed plan object: an empty dict is falsy
PlanTruthy(plan) == plan # EmptyPlan

\* The messages get_plan builds: a revision request when initial_plan and
\* reflection_feedback are both truthy, an initial request otherwise.
GetPlanMessages(q, plan, feedback, given) ==
    IF given /\ PlanTruthy(plan)
    THEN [kind |-> "revision", user_query |-> q, plan |-> plan,
          feedback |-> feedback]
    ELSE [kind |-> "initial", user_query |-> q, plan |-> EmptyPlan,
          feedback |-> SyntheticVerdict]

\* ReflectionPrompt reading the interaction before the last, if there is one
ReflectionPromptStale(history) ==
    IF history = <<>>
    THEN [kind |-> "placeholder", user_query |-> "none",
          generated_plan |-> EmptyPlan]
    ELSE IF Len(history) = 1
    THEN [kind |-> "prompt", user_query |-> history[1].query,
          generated_plan |-> history[1].plan]
    ELSE [kind |-> "prompt", user_query |-> history[Len(history) - 1].query,
          generated_plan |-> history[Len(history) - 1].plan]

\* ReflectionPrompt reading the first interaction instead of the last
ReflectionPromptFirst(history) ==
    IF history = <<>>
    THEN [kind |-> "placeholder", user_query |-> "none",
          generated_plan |-> EmptyPlan]
    ELSE [kind |-> "prompt", user_query |-> history[1].query,
          generated_plan |-> history[1].plan]

\* Agent.create_reflection_prompt / ReflectionEngine._create_reflection_prompt
\* with PromptBuilder._create_reflection_json: the prompt embeds the query
\* and the plan of the last interaction of the history it reads.
ReflectionPrompt(history) ==
    IF history = <<>>
    THEN [kind |-> "placeholder", user_query |-> "none",
          generated_plan |-> EmptyPlan]
    ELSE [kind |-> "prompt", user_query |-> history[Len(history)].query,
          generated_plan |-> history[Len(history)].plan]

\* the composite Agent.execute stores once the reflection loop has ended
Composite(initial, reflections, final) ==
    [initial_plan |-> initial, reflection |-> reflections, final_plan |-> final]

\* plan["direct_response"], returned as it is; a missing key is a KeyError,
\* which the except-branch of Agent.execute turns into None
AgentDirectResponse(plan) ==
    IF plan.direct_response = Absent
    THEN RetNone("direct_response")
    ELSE RetStr(<<plan.direct_response>>)

\* The tail of Agent.execute after the tool loop (results[0] is indexed, the
\* report joins the results as strings).  None of the tools returns a str.
\* "result.summary" is result['summary'] inside the loop over the
\* enriched_results, "summary" is results[0]["summary"] of the else-branch.
IsStr(outcome) == outcome \notin {"enriched", "unsummarised", "error_tuple", "summary", "None"}

AgentReport(rs) ==
    IF rs = <<>> THEN RetNone("results[0]")           \* IndexError
    ELSE IF rs[1] = "unsummarised" THEN RetNone("result.summary")  \* KeyError
    ELSE IF rs[1] = "error_tuple" THEN RetNone("summary")  \* TypeError
    ELSE IF \E i \in 1..Len(rs) : ~IsStr(rs[i]) THEN RetNone("join")  \* TypeError
    ELSE RetStr(<<"report">>)

(***************************************************************************)
(* Agent.execute (src/src/react/agent.py).                                 *)
(***************************************************************************)
execute_begin(q, m) ==
    /\ pc = "idle"
    /\ op' = "execute"
    /\ pc' = "safety"
    /\ user_query' = q
    /\ max_iter' = m
    /\ UNCHANGED <<tools, classification, agent_history, sm_history, now, stamps, initial_plan,
                   current_plan, reflection_history, iteration, verdict, idx,
                   results, invoked, trace, prompts, ret>>

\* result = safety_check(content = user_query), outside the try block
execute_safety(r) ==
    /\ op = "execute" /\ pc = "safety"
    /\ trace' = Append(trace, "safety_check")
    /\ IF r.kind = "raise"
       THEN ret' = RetRaise("safety_check") /\ pc' = "done" /\ UNCHANGED classification
       ELSE IF HasUnsafe(r.content)
            THEN /\ ret' = RetStr(HarmfulMessage)
                 /\ pc' = "done"
                 /\ classification' = r.content
            ELSE /\ ret' = ret
                 /\ pc' = "plan"
                 /\ classification' = r.content
    /\ UNCHANGED <<tools, agent_history, sm_history, now, stamps, op, locals, prompts>>

\* initial_plan = get_plan(...); json.loads; append the Interaction; the
\* direct-response return
execute_get_plan(r) ==
    /\ op = "execute" /\ pc = "plan"
    /\ trace' = Append(trace, "get_plan")
    /\ plan_messages' = GetPlanMessages(user_query, EmptyPlan, SyntheticVerdict, FALSE)
    /\ IF ~PlanParses(r)
       THEN /\ ret' = RetNone(IF r.kind = "raise" THEN "get_plan" ELSE "json.loads")
            /\ pc' = "done"
            /\ UNCHANGED <<agent_history, now, initial_plan, current_plan>>
       ELSE /\ initial_plan' = r.plan
            /\ agent_history' = Append(agent_history, Interaction(now, user_query, r.plan))
            /\ now' = now + 1
            /\ IF ~GetRequiresTools(r.plan)
               THEN /\ ret' = AgentDirectResponse(r.plan)
                    /\ pc' = "done"
                    /\ UNCHANGED current_plan
               ELSE /\ current_plan' = r.plan
                    /\ pc' = "loop"
                    /\ UNCHANGED ret
    /\ UNCHANGED <<tools, classification, sm_history, stamps, op, user_query, max_iter,
                   reflection_history, iteration, verdict, idx, results,
                   invoked, critique_prompt, synth_prompt>>

\* One iteration of `for iteration in range(max_reflection_iterations)` up
\* to the revision call: the last interaction is updated, the critique is
\* requested and parsed.
execute_reflect(r) ==
    /\ op = "execute" /\ pc = "loop"
    /\ LoopContinues(iteration, max_iter)
    /\ iteration' = iteration + 1
    /\ agent_history' = SetLast(agent_history, current_plan, now)
    /\ now' = now + 1
    /\ critique_prompt' = ReflectionPrompt(agent_history')
    /\ trace' = Append(trace, "reflect_on_plan")
    /\ IF r.kind # "json"
       THEN /\ reflection_history' = Append(reflection_history, SyntheticVerdict)
            /\ pc' = "loop"
            /\ UNCHANGED verdict
       ELSE /\ reflection_history' = Append(reflection_history, r.verdict)
            /\ verdict' = r.verdict
            /\ pc' = IF GetRequiresChanges(r.verdict) THEN "revise" ELSE "finalize"
    /\ UNCHANGED <<tools, classification, sm_history, stamps, op, user_query, max_iter,
                   initial_plan, current_plan, idx, results, invoked, plan_messages,
                   synth_prompt, ret>>

\* revised_plan = get_plan(..., initial_plan = current_plan,
\* reflection_feedback = reflection_result) and what follows in the iteration
execute_revise(r) ==
    /\ op = "execute" /\ pc = "revise"
    /\ trace' = Append(trace, "get_plan_revision")
    /\ plan_messages' = GetPlanMessages(user_query, current_plan, verdict, TRUE)
    /\ pc' = "loop"
    /\ current_plan' = KeptOrRevised(current_plan, r)
    /\ reflection_history' =
          IF r.kind \in {"raise", "garbage"}
          THEN Append(reflection_history, SyntheticVerdict)
          ELSE reflection_history
    /\ UNCHANGED <<tools, classification, agent_history, sm_history, now, stamps, op, user_query,
                   max_iter, initial_plan, iteration, verdict, idx, results,
                   invoked, critique_prompt, synth_prompt, ret>>

\* after the loop: final_plan = current_plan, the composite is stored, and
\* the plan is either answered directly or its tool loop starts
execute_finalize ==
    /\ op = "execute"
    /\ LoopExits(pc, iteration, max_iter)
    /\ agent_history' = SetLastPlan(agent_history,
                            Composite(initial_plan, reflection_history, current_plan))
    /\ IF ~GetRequiresTools(current_plan)
       THEN /\ ret' = AgentDirectResponse(current_plan)
            /\ pc' = "done"
            /\ UNCHANGED <<idx, results>>
       ELSE IF ~current_plan.has_tool_calls
            THEN /\ ret' = RetNone("tool_calls")
                 /\ pc' = "done"
                 /\ UNCHANGED <<idx, results>>
            ELSE /\ idx' = 1
                 /\ results' = <<>>
                 /\ pc' = "tools"
                 /\ UNCHANGED ret
    /\ UNCHANGED <<tools, classification, sm_history, now, stamps, op, user_query, max_iter,
                   initial_plan, current_plan, reflection_history, iteration,
                   verdict, invoked, trace, prompts>>

\* use_tool for an entry whose tool is not registered: returns False
execute_skip_tool ==
    /\ op = "execute" /\ pc = "tools"
    /\ idx <= Len(current_plan.tool_calls)
    /\ current_plan.tool_calls[idx] \notin tools
    /\ idx' = idx + 1
    /\ UNCHANGED <<tools, classification, agent_history, sm_history, now, stamps, op, pc, user_query,
                   max_iter, initial_plan, current_plan, reflection_history,
                   iteration, verdict, results, invoked, trace, prompts, ret>>

\* use_tool for a registered tool: tool.func(**kwargs)
execute_use_tool(outcome) ==
    /\ op = "execute" /\ pc = "tools"
    /\ idx <= Len(current_plan.tool_calls)
    /\ current_plan.tool_calls[idx] \in tools
    /\ outcome \in ToolOutcomes(current_plan.tool_calls[idx])
    /\ invoked' = Append(invoked, idx)
    /\ trace' = Append(trace, "tool")
    /\ IF outcome = "raise"
       THEN /\ ret' = RetNone("tool.func")
            /\ pc' = "done"
            /\ UNCHANGED <<idx, results>>
       ELSE /\ idx' = idx + 1
            /\ results' = IF Truthy(outcome) THEN Collect(results, outcome) ELSE results
            /\ UNCHANGED <<ret, pc>>
    /\ UNCHANGED <<tools, classification, agent_history, sm_history, now, stamps, op, user_query,
                   max_iter, initial_plan, current_plan, reflection_history,
                   iteration, verdict, prompts>>

\* the code after the tool loop: results[0] and the final report
execute_report ==
    /\ op = "execute" /\ pc = "tools"
    /\ idx > Len(current_plan.tool_calls)
    /\ ret' = AgentReport(results)
    /\ pc' = "done"
    /\ UNCHANGED <<tools, classification, agent_history, sm_history, now, stamps, op, locals, trace,
                   prompts>>

\* the initial plans get_plan returns to Agent.execute
AgentPlans == {p \in Plans : Len(p.tool_calls) <= MaxAgentCalls}

ExecuteNext ==
    \/ \E q \in UserQueries, m \in IterationArgs : execute_begin(q, m)
    \/ \E r \in SafetyResponses : execute_safety(r)
    \/ \E r \in PlanResponses(AgentPlans) : execute_get_plan(r)
    \/ \E r \in VerdictResponses : execute_reflect(r)
    \/ \E r \in PlanResponses(RevisedPlans) : execute_revise(r)
    \/ execute_finalize
    \/ execute_skip_tool
    \/ \E o \in {"enriched", "unsummarised", "error_tuple", "summary", "None", "raise"} :
            execute_use_tool(o)
    \/ execute_report

(***************************************************************************)
(* ReflectionEngine.reflect_and_improve                                    *)
(* (src/src/react/reflection_engine.py).                                   *)
(***************************************************************************)
reflect_begin(q, plan, m) ==
    /\ pc = "idle"
    /\ op' = "reflect_and_improve"
    /\ pc' = "loop"
    /\ user_query' = q
    /\ max_iter' = m
    /\ initial_plan' = plan
    /\ current_plan' = plan
    /\ reflection_history' = <<>>
    /\ UNCHANGED <<tools, classification, agent_history, sm_history, now, stamps, iteration, verdict,
                   idx, results, invoked, trace, prompts, ret>>

\* One iteration up to the revision call: an Interaction holding the current
\* plan is added to the shared history, the critique is requested and parsed.
reflect_critique(r) ==
    /\ op = "reflect_and_improve" /\ pc = "loop"
    /\ LoopContinues(iteration, max_iter)
    /\ iteration' = iteration + 1
    /\ sm_history' = AddInteraction(sm_history, Interaction(now, user_query, current_plan))
    /\ now' = now + 1
    /\ critique_prompt' = ReflectionPrompt(sm_history')
    /\ trace' = Append(trace, "reflect_on_plan")
    /\ IF r.kind # "json"
       THEN /\ reflection_history' = Append(reflection_history, SyntheticVerdict)
            /\ pc' = "loop"
            /\ UNCHANGED verdict
       ELSE /\ reflection_history' = Append(reflection_history, r.verdict)
            /\ verdict' = r.verdict
            /\ pc' = IF GetRequiresChanges(r.verdict) THEN "revise" ELSE "finalize"
    /\ UNCHANGED <<tools, classification, agent_history, stamps, op, user_query, max_iter,
                   initial_plan, current_plan, idx, results, invoked,
                   plan_messages, synth_prompt, ret>>

reflect_revise(r) ==
    /\ op = "reflect_and_improve" /\ pc = "revise"
    /\ trace' = Append(trace, "get_plan_revision")
    /\ plan_messages' = GetPlanMessages(user_query, current_plan, verdict, TRUE)
    /\ pc' = "loop"
    /\ current_plan' = KeptOrRevised(current_plan, r)
    /\ reflection_history' =
          IF r.kind \in {"raise", "garbage"}
          THEN Append(reflection_history, SyntheticVerdict)
          ELSE reflection_history
    /\ UNCHANGED <<tools, classification, agent_history, sm_history, now, stamps, op, user_query,
                   max_iter, initial_plan, iteration, verdict, idx, results,
                   invoked, critique_prompt, synth_prompt, ret>>

\* return {"final_plan": current_plan, "reflection_history": reflection_history}
reflect_return ==
    /\ op = "reflect_and_improve"
    /\ LoopExits(pc, iteration, max_iter)
    /\ ret' = RetDict(<<"final_plan", "reflection_history">>, Absent)
    /\ pc' = "done"
    /\ UNCHANGED <<tools, classification, agent_history, sm_history, now, stamps, op, locals, trace,
                   prompts>>

(***************************************************************************)
(* reflect_and_improve with a second thread running it for another query.  *)
(* The threads share state_manager only, and a thread can be preempted     *)
(* between two statements: the iteration is split where it touches the     *)
(* shared history (add_interaction, then _create_reflection_prompt), and   *)
(* the other thread appears through what it does to the shared history.    *)
(***************************************************************************)
\* the query the other thread is processing, and the plan it holds
OtherQuery == "q2"

OtherPlan == MkPlan("true", Absent, TRUE, <<"wikipedia_search", "wikipedia_search">>)

\* The first statement of an iteration,
\*   add_interaction(Interaction(timestamp = datetime.now(), ...)),
\* evaluates its argument first: the clock is read, and the thread can be
\* preempted before the Interaction is added.
reflect_clock ==
    /\ op = "reflect_and_improve" /\ pc = "loop"
    /\ LoopContinues(iteration, max_iter)
    /\ iteration' = iteration + 1
    /\ stamp' = now
    /\ now' = now + 1
    /\ pc' = "stamped"
    /\ UNCHANGED <<tools, classification, agent_history, sm_history, other_stamp, op,
                   user_query, max_iter, initial_plan, current_plan,
                   reflection_history, verdict, idx, results, invoked, trace,
                   prompts, ret>>

\* StateManager.add_interaction appends the Interaction built with that clock
\* value
reflect_record ==
    /\ op = "reflect_and_improve" /\ pc = "stamped"
    /\ sm_history' = AddInteraction(sm_history, Interaction(stamp, user_query, current_plan))
    /\ stamp' = NoStamp
    /\ pc' = "recorded"
    /\ UNCHANGED <<tools, classification, agent_history, now, other_stamp, op, locals,
                   trace, prompts, ret>>

\* the rest of the iteration up to the revision call: the prompt is built
\* from the shared history as it is now, the critique is requested and parsed
reflect_prompt(r) ==
    /\ op = "reflect_and_improve" /\ pc = "recorded"
    /\ critique_prompt' = ReflectionPrompt(sm_history)
    /\ trace' = Append(trace, "reflect_on_plan")
    /\ IF r.kind # "json"
       THEN /\ reflection_history' = Append(reflection_history, SyntheticVerdict)
            /\ pc' = "loop"
            /\ UNCHANGED verdict
       ELSE /\ reflection_history' = Append(reflection_history, r.verdict)
            /\ verdict' = r.verdict
            /\ pc' = IF GetRequiresChanges(r.verdict) THEN "revise" ELSE "finalize"
    /\ UNCHANGED <<tools, classification, agent_history, sm_history, now, stamps, op,
                   user_query, max_iter, initial_plan, current_plan, iteration,
                   idx, results, invoked, plan_messages, synth_prompt, ret>>

\* the positions of this call at which the other thread can run
InFlight == op = "reflect_and_improve" /\ pc \in {"loop", "stamped", "recorded", "revise", "finalize"}

\* the iterations the other thread, which runs reflect_and_improve for
\* OtherQuery while this call is in flight, has started
OtherStarted ==
    Cardinality({i \in 1..Len(sm_history) : sm_history[i].query = OtherQuery})
        + (IF other_stamp = NoStamp THEN 0 ELSE 1)

\* the first statement of an iteration of the other thread: the clock read
other_clock ==
    /\ InFlight
    /\ other_stamp = NoStamp
    /\ OtherStarted < MaxOther
    /\ other_stamp' = now
    /\ now' = now + 1
    /\ UNCHANGED <<tools, classification, agent_history, sm_history, stamp, op, pc,
                   locals, trace, prompts, ret>>

\* and its add_interaction
other_add_interaction(plan) ==
    /\ InFlight
    /\ other_stamp # NoStamp
    /\ sm_history' = AddInteraction(sm_history, Interaction(other_stamp, OtherQuery, plan))
    /\ other_stamp' = NoStamp
    /\ UNCHANGED <<tools, classification, agent_history, now, stamp, op, pc, locals,
                   trace, prompts, ret>>

\* reflect_and_improve records and embeds the plan as it is, whatever its
\* tool_calls: the call starts from one of the plans a revision can return
ReflectConcurrentNext ==
    \/ \E q \in UserQueries, p \in RevisedPlans, m \in IterationArgs : reflect_begin(q, p, m)
    \/ reflect_clock
    \/ reflect_record
    \/ \E r \in VerdictResponses : reflect_prompt(r)
    \/ \E r \in PlanResponses(RevisedPlans) : reflect_revise(r)
    \/ reflect_return
    \/ other_clock
    \/ other_add_interaction(OtherPlan)

ReflectNext ==
    \/ \E q \in UserQueries, p \in Plans, m \in IterationArgs : reflect_begin(q, p, m)
    \/ \E r \in VerdictResponses : reflect_critique(r)
    \/ \E r \in PlanResponses(RevisedPlans) : reflect_revise(r)
    \/ reflect_return

(***************************************************************************)
(* PlanExecutor.execute_plan (src/src/react/plan_executor.py).             *)
(***************************************************************************)
\* _format_tool_result for the two search tools: the text of the dict, a
\* KeyError for an entry of enriched_results without summary
\* (result['summary'] inside the loop), or a TypeError for the tuple of a
\* failed google_search (result["summary"] of the else-branch)
FormatToolResult(name, result) ==
    IF result = "enriched" THEN "enriched_text"
    ELSE IF result = "summary" THEN "summary_text"
    ELSE IF result = "unsummarised" THEN "KeyError"
    ELSE "TypeError"

\* formatted_results of _synthesize_results
FormattedResults(rs) ==
    [i \in 1..Len(rs) |->
        [tool |-> rs[i].tool, result |-> FormatToolResult(rs[i].tool, rs[i].result)]]

FormatRaises(rs) ==
    \E i \in 1..Len(rs) : FormattedResults(rs)[i].result \in {"KeyError", "TypeError"}

\* the statement at which formatting stops: that of the first result, in
\* list order, that cannot be formatted
FormatException(rs) ==
    LET first == CHOOSE i \in 1..Len(rs) :
                    /\ FormattedResults(rs)[i].result \in {"KeyError", "TypeError"}
                    /\ \A j \in 1..(i - 1) :
                          FormattedResults(rs)[j].result \notin {"KeyError", "TypeError"}
    IN  IF FormattedResults(rs)[first].result = "KeyError"
        THEN "result.summary" ELSE "summary"

\* the except-branch of _synthesize_results reads fr['formatted_result']
FallbackConcat(frs) ==
    IF \E i \in 1..Len(frs) : "formatted_result" \notin DOMAIN frs[i]
    THEN RetRaise("formatted_result")                 \* KeyError
    ELSE RetStr([i \in 1..Len(frs) |-> frs[i].tool])

\* execute_plan up to the tool loop
execute_plan_begin(plan) ==
    /\ pc = "idle"
    /\ op' = "execute_plan"
    /\ initial_plan' = plan
    /\ current_plan' = plan
    /\ IF plan.requires_tools = Absent
       THEN /\ ret' = RetRaise("requires_tools")      \* KeyError
            /\ pc' = "done"
            /\ UNCHANGED <<idx, results>>
       ELSE IF plan.requires_tools = "false"
            THEN /\ ret' = IF plan.direct_response = Absent
                           THEN RetRaise("direct_response")  \* KeyError
                           ELSE RetDict(<<plan.direct_response>>, "success")
                 /\ pc' = "done"
                 /\ UNCHANGED <<idx, results>>
            ELSE IF ~plan.has_tool_calls
                 THEN /\ ret' = RetRaise("tool_calls")  \* KeyError
                      /\ pc' = "done"
                      /\ UNCHANGED <<idx, results>>
                 ELSE /\ idx' = 1
                      /\ results' = <<>>
                      /\ pc' = "tools"
                      /\ UNCHANGED ret
    /\ UNCHANGED <<tools, classification, agent_history, sm_history, now, stamps, user_query, max_iter,
                   reflection_history, iteration, verdict, invoked, trace,
                   prompts>>

\* _execute_tool for an entry whose tool is not registered: returns False
execute_plan_skip_tool ==
    /\ op = "execute_plan" /\ pc = "tools"
    /\ idx <= Len(current_plan.tool_calls)
    /\ current_plan.tool_calls[idx] \notin tools
    /\ idx' = idx + 1
    /\ UNCHANGED <<tools, classification, agent_history, sm_history, now, stamps, op, pc, user_query,
                   max_iter, initial_plan, current_plan, reflection_history,
                   iteration, verdict, results, invoked, trace, prompts, ret>>

\* _execute_tool for a registered tool: tool.func(**kwargs), not guarded
execute_plan_use_tool(outcome) ==
    /\ op = "execute_plan" /\ pc = "tools"
    /\ idx <= Len(current_plan.tool_calls)
    /\ current_plan.tool_calls[idx] \in tools
    /\ outcome \in ToolOutcomes(current_plan.tool_calls[idx])
    /\ invoked' = Append(invoked, idx)
    /\ trace' = Append(trace, "tool")
    /\ IF outcome = "raise"
       THEN /\ ret' = RetRaise("tool.func")
            /\ pc' = "done"
            /\ UNCHANGED <<idx, results>>
       ELSE /\ idx' = idx + 1
            /\ results' =
                  IF Truthy(outcome)
                  THEN Collect(results, [tool |-> current_plan.tool_calls[idx],
                                         result |-> outcome])
                  ELSE results
            /\ UNCHANGED <<ret, pc>>
    /\ UNCHANGED <<tools, classification, agent_history, sm_history, now, stamps, op, user_query,
                   max_iter, initial_plan, current_plan, reflection_history,
                   iteration, verdict, prompts>>

\* after the tool loop: the fallback message, or _synthesize_results up to
\* its generate call
execute_plan_collect ==
    /\ op = "execute_plan" /\ pc = "tools"
    /\ idx > Len(current_plan.tool_calls)
    /\ IF results = <<>>
       THEN ret' = RetStr(NoInfoMessage) /\ pc' = "done" /\ UNCHANGED synth_prompt
       ELSE IF FormatRaises(results)
       THEN /\ ret' = RetRaise(FormatException(results))
            /\ pc' = "done"
            /\ UNCHANGED synth_prompt
       ELSE IF Len(results) = 1
       THEN /\ ret' = RetStr(<<FormattedResults(results)[1].result>>)
            /\ pc' = "done"
            /\ UNCHANGED synth_prompt
       ELSE IF sm_history = <<>>
       THEN /\ ret' = RetRaise("get_last_interaction().query")
            /\ pc' = "done"
            /\ UNCHANGED synth_prompt
       ELSE /\ synth_prompt' = [kind |-> "prompt",
                                original_query |-> sm_history[Len(sm_history)].query]
            /\ pc' = "synthesize"
            /\ UNCHANGED ret
    /\ UNCHANGED <<tools, classification, agent_history, sm_history, now, stamps, op, locals, trace,
                   critique_prompt, plan_messages>>

\* synthesized_response = generate(...), and its except-branch
execute_plan_synthesize(ok) ==
    /\ op = "execute_plan" /\ pc = "synthesize"
    /\ trace' = Append(trace, "generate")
    /\ ret' = IF ok THEN RetStr(<<"synthesized_response">>)
              ELSE FallbackConcat(FormattedResults(results))
    /\ pc' = "done"
    /\ UNCHANGED <<tools, classification, agent_history, sm_history, now, stamps, op, locals, prompts>>

ExecutePlanNext ==
    \/ \E p \in Plans : execute_plan_begin(p)
    \/ execute_plan_skip_tool
    \/ \E o \in {"enriched", "unsummarised", "error_tuple", "summary", "None", "raise"} :
            execute_plan_use_tool(o)
    \/ execute_plan_collect
    \/ \E ok \in BOOLEAN : execute_plan_synthesize(ok)

(***************************************************************************)
(* StateManager (src/src/memory/interaction_history.py).                   *)
(***************************************************************************)
\* an interaction left in the shared history by an earlier query, which
\* read the clock for it
EarlierInteraction(ts) == Interaction(ts, "q0", EmptyPlan)

\* add_interaction as an earlier query calls it; the clock has moved on
add_interaction(interaction) ==
    /\ pc = "idle"
    /\ now < MaxEarlier
    /\ sm_history' = AddInteraction(sm_history, interaction)
    /\ now' = now + 1
    /\ UNCHANGED <<tools, classification, agent_history, stamps, op, pc, locals, trace,
                   prompts, ret>>

clear_interaction_history ==
    /\ pc = "idle"
    /\ sm_history # <<>>
    /\ sm_history' = <<>>
    /\ UNCHANGED <<tools, classification, agent_history, now, stamps, op, pc, locals, trace, prompts, ret>>

\* the interaction an earlier call of Agent.execute, answered directly, left
\* in Agent.interaction_history
EarlierAgentInteraction(ts) == Interaction(ts, "q0", MkPlan("false", "d0", FALSE, <<>>))

\* an earlier call of Agent.execute on the same Agent, seen by what it left
earlier_execute ==
    /\ pc = "idle"
    /\ Len(agent_history) < MaxEarlier
    /\ agent_history' = Append(agent_history, EarlierAgentInteraction(now))
    /\ now' = now + 1
    /\ UNCHANGED <<tools, classification, sm_history, stamps, op, pc, locals, trace,
                   prompts, ret>>

StateManagerNext ==
    \/ add_interaction(EarlierInteraction(now))
    \/ clear_interaction_history

(***************************************************************************)
(* Specifications.                                                         *)
(*   Spec: tools are registered, then one call of Agent.execute or of      *)
(*     ReflectionEngine.reflect_and_improve runs to its end.               *)
(*   SpecPlanExecutor: tools are registered and the shared history is      *)
(*     filled, then one call of PlanExecutor.execute_plan runs to its end. *)
(*   SpecStages: as SpecPlanExecutor, the call being one of Agent.execute  *)
(*     or PlanExecutor.execute_plan (the two operations that run tools).   *)
(*   SpecHistory: the shared history is filled or cleared, then one call   *)
(*     of reflect_and_improve, the operation that adds to it, runs.        *)
(*   SpecConcurrent: one call of reflect_and_improve runs while a second   *)
(*     thread runs reflect_and_improve for another query.                  *)
(*   SpecLive: tools are registered, then one call of Agent.execute runs,  *)
(*     with the fairness that its external calls eventually return.        *)
(*   SpecAgent: tools are registered and earlier calls have left their     *)
(*     interactions in the Agent, then one call of Agent.execute runs.     *)
(***************************************************************************)
Next ==
    \/ \E n \in ToolNames : add_tool(n)
    \/ ExecuteNext
    \/ ReflectNext

Spec == Init /\ [][Next]_vars

NextPlanExecutor ==
    \/ \E n \in ToolNames : add_tool(n)
    \/ StateManagerNext
    \/ ExecutePlanNext

SpecPlanExecutor == Init /\ [][NextPlanExecutor]_vars

NextStages ==
    \/ \E n \in ToolNames : add_tool(n)
    \/ StateManagerNext
    \/ ExecuteNext
    \/ ExecutePlanNext

SpecStages == Init /\ [][NextStages]_vars

NextHistory ==
    \/ StateManagerNext
    \/ ReflectNext

SpecHistory == Init /\ [][NextHistory]_vars

SpecConcurrent == Init /\ [][ReflectConcurrentNext]_vars

NextLive ==
    \/ \E n \in ToolNames : add_tool(n)
    \/ ExecuteNext

NextAgent ==
    \/ \E n \in ToolNames : add_tool(n)
    \/ earlier_execute
    \/ ExecuteNext

SpecAgent == Init /\ [][NextAgent]_vars

\* A call of Agent.execute that has started keeps running: it is one thread
\* of straight-line code, and every external call it waits for eventually
\* returns or fails.
SpecLive == Init /\ [][NextLive]_vars /\ WF_vars(op = "execute" /\ ExecuteNext)

(***************************************************************************)
(* Properties.                                                             *)
(***************************************************************************)
Calls(c) == Count(trace, c)

InLoopOp == op \in {"execute", "reflect_and_improve"}

ClassifiedUnsafe == classification # <<>> /\ classification[1] = "unsafe"

WasInvoked(i) == \E k \in 1..Len(invoked) : invoked[k] = i

RegisteredAt(i) == current_plan.tool_calls[i] \in tools

\* the verdicts parsed from the answer of a critique call
Parsed(v) == v \in Verdicts

\* C1: when the safety classification of the query is unsafe, Agent.execute
\* issues no planner call, and no critique, tool or synthesis call either:
\* the classification call is the only call of the run.
C1_UnsafeIssuesNoCalls ==
    (op = "execute" /\ ClassifiedUnsafe)
        => \A i \in 1..Len(trace) : trace[i] = "safety_check"

C1_Witness ==
    /\ op = "execute" /\ pc = "done"
    /\ ClassifiedUnsafe
    /\ ret = RetStr(HarmfulMessage)
    /\ trace = <<"safety_check">>

\* C2: whenever a stage of Agent.execute fails with an exception, execute
\* returns a record with status failed (and an error) instead of raising.
C2_NoFaultEscapes ==
    (op = "execute" /\ pc = "done" /\ ret.exception # "none")
        => (ret.type = "dict" /\ ret.status = "failed")

\* C3: every call of Agent.execute that returns, returns a record whose
\* status is success or failed, never a bare string and never no value.
C3_StructuredResult ==
    (op = "execute" /\ pc = "done" /\ ret.type # "raise")
        => (ret.type = "dict" /\ ret.status \in {"success", "failed"})

\* C4: when the answer to the initial planning request cannot be parsed as
\* a plan, Agent.execute does not raise and returns a record with status
\* failed.
C4_UnparseablePlanFails ==
    (op = "execute" /\ pc = "done" /\ ret.exception = "json.loads")
        => (ret.type # "raise" /\ ret.type = "dict" /\ ret.status = "failed")

\* C5: for max_reflection_iterations >= 0 the number of critique calls
\* issued for the query never exceeds max_reflection_iterations.
C5_CritiqueBound ==
    (InLoopOp /\ max_iter >= 0) => Calls("reflect_on_plan") <= max_iter

C5_Witness ==
    /\ op = "execute" /\ pc = "done"
    /\ max_iter = 2
    /\ Calls("reflect_on_plan") = 2
    /\ Calls("get_plan_revision") = 2
    /\ SyntheticVerdict \in {reflection_history[i] : i \in 1..Len(reflection_history)}

\* C6: with max_reflection_iterations = 0 and an initial plan that requires
\* tools, no critique call and no revision call is issued and the plan the
\* loop ends with (the plan that is executed) is the initial plan.
C6_ZeroIterations ==
    (InLoopOp /\ max_iter = 0 /\ GetRequiresTools(initial_plan))
        => /\ Calls("reflect_on_plan") = 0
           /\ Calls("get_plan_revision") = 0
           /\ current_plan = initial_plan

C6_Witness ==
    /\ op = "execute" /\ pc = "tools"
    /\ max_iter = 0
    /\ initial_plan \in ToolPlans
    /\ current_plan = initial_plan
    /\ invoked # <<>>

\* C7, as stated: once any verdict recorded in reflection_history has
\* requires_changes = false, no further revision call is issued.
C7_AnyNoChangeStopsRevisions ==
    [][(InLoopOp /\ \E i \in 1..Len(reflection_history) :
                        reflection_history[i].requires_changes = "false")
          => Count(trace', "get_plan_revision") = Calls("get_plan_revision")]_vars

\* C7, amended: once a verdict parsed from the answer of a critique call has
\* requires_changes = false, no further revision call is issued (the verdict
\* recorded for a failed iteration does not count).
C7_ParsedNoChangeStopsRevisions ==
    [][(InLoopOp /\ \E i \in 1..Len(reflection_history) :
                        /\ Parsed(reflection_history[i])
                        /\ reflection_history[i].requires_changes = "false")
          => Count(trace', "get_plan_revision") = Calls("get_plan_revision")]_vars

C7_Witness ==
    /\ op = "reflect_and_improve" /\ pc = "done"
    /\ Len(reflection_history) = 2
    /\ reflection_history[1] = MkVerdict("true", "r1")
    /\ reflection_history[2] = MkVerdict("false", "r1")
    /\ Calls("get_plan_revision") = 1
    /\ current_plan # initial_plan

\* C8: when the initial plan of a safe query has requires_tools = false,
\* Agent.execute issues no critique, revision or tool call and returns the
\* plan's direct_response.
C8_DirectAnswer ==
    (op = "execute" /\ initial_plan.requires_tools = "false")
        => /\ Calls("reflect_on_plan") = 0
           /\ Calls("get_plan_revision") = 0
           /\ Calls("tool") = 0
           /\ pc = "done"
           /\ initial_plan.direct_response # Absent
                 => (ret.type = "str" /\ ret.value = <<initial_plan.direct_response>>)

C8_Witness ==
    /\ op = "execute" /\ pc = "done"
    /\ max_iter > 0
    /\ initial_plan = MkPlan("false", "d1", FALSE, <<>>)
    /\ ret = RetStr(<<"d1">>)
    /\ trace = <<"safety_check", "get_plan">>

\* C9: an entry of tool_calls naming an unregistered tool is skipped without
\* invoking anything and without aborting: every other entry of the plan
\* whose tool is registered is still invoked.
C9_UnregisteredSkippedOthersRun ==
    (/\ op = "execute_plan" /\ pc = "done" /\ idx >= 1
     /\ \E i \in 1..Len(current_plan.tool_calls) : ~RegisteredAt(i))
        => \A i \in 1..Len(current_plan.tool_calls) : WasInvoked(i) <=> RegisteredAt(i)

\* C10: when the invocation of a registered tool fails (failure sentinel or
\* exception), only that tool's contribution is dropped: every later entry
\* is still invoked and execute_plan still returns a response.
C10_FailedToolOnlyDropped ==
    (op = "execute_plan" /\ pc = "done" /\ Len(invoked) > Len(results))
        => /\ ret.type # "raise"
           /\ \A i \in 1..Len(current_plan.tool_calls) : RegisteredAt(i) => WasInvoked(i)

\* the tool loop of the operation ran through the whole tool_calls list
ToolLoopEnded == idx >= 1 /\ idx > Len(current_plan.tool_calls)

ClassifiedSafe == classification # <<>> /\ ~HasUnsafe(classification)

\* C11: when every entry of the final plan's tool_calls was skipped or gave a
\* failure sentinel, so that no result remains after the tool loop, the
\* pipeline returns the fixed fallback message and never indexes the empty
\* result list.
C11_EmptyResultsFallback ==
    (op = "execute" /\ pc = "done" /\ ToolLoopEnded /\ results = <<>>)
        => (ret = RetStr(NoInfoMessage) /\ ret.exception # "results[0]")

\* C12: execute_plan issues no synthesis call when exactly one tool result
\* remains and returns that result's formatted text; it issues exactly one
\* synthesis call when two or more tool results remain.
C12_SynthesisCallCount ==
    (op = "execute_plan" /\ pc = "done" /\ ToolLoopEnded)
        => /\ Len(results) = 1
                => /\ Calls("generate") = 0
                   /\ ret.type = "str"
                   /\ ret.value = <<FormatToolResult(results[1].tool, results[1].result)>>
           /\ Len(results) >= 2 => Calls("generate") = 1

\* C13: when two or more tool results remain and the synthesis call fails,
\* execute_plan does not raise and returns the concatenation of the
\* remaining results, each labelled with its tool.
C13_SynthesisFailureFallsBack ==
    (/\ op = "execute_plan" /\ pc = "done"
     /\ Calls("generate") = 1
     /\ ret.value # <<"synthesized_response">>)
        => /\ ret.type = "str"
           /\ Len(ret.value) = Len(results)
           /\ \A i \in 1..Len(results) : ret.value[i] = results[i].tool

\* C14: Agent.execute called with max_reflection_iterations < 0 rejects the
\* call at once: no planner, critique or tool call is issued and the result
\* is not an answer.
C14_NegativeLimitRejected ==
    (op = "execute" /\ max_iter < 0)
        => /\ Calls("get_plan") = 0
           /\ Calls("reflect_on_plan") = 0
           /\ Calls("get_plan_revision") = 0
           /\ Calls("tool") = 0
           /\ pc = "done" => (ret.status # "success" /\ ret.type # "str")

\* C15: for a safe query whose final plan requires tools and for which at
\* least one tool call gave a result, Agent.execute returns a record with
\* status success that carries the content made from the tool results.
C15_ToolRunSucceeds ==
    (/\ op = "execute" /\ pc = "done"
     /\ ClassifiedSafe
     /\ GetRequiresTools(current_plan)
     /\ ToolLoopEnded
     /\ results # <<>>)
        => (ret.type = "dict" /\ ret.status = "success" /\ ret.value # <<>>)

\* the stage an external call belongs to
Stage(c) ==
    CASE c = "safety_check" -> 1
      [] c = "get_plan" -> 2
      [] c \in {"reflect_on_plan", "get_plan_revision"} -> 3
      [] c = "tool" -> 4
      [] c = "generate" -> 5

\* the reflection loop of the running call is over: its range is used up or
\* the verdict recorded last was parsed and asks for no change
ReflectionLoopEnded ==
    \/ ~LoopContinues(iteration, max_iter)
    \/ /\ reflection_history # <<>>
       /\ Parsed(reflection_history[Len(reflection_history)])
       /\ ~GetRequiresChanges(reflection_history[Len(reflection_history)])

\* C16: within one query the stages run in the order Safety, Plan, Reflect,
\* Execute, Synthesize: the calls of the run are issued in stage order, no
\* planner call before the classification was returned, no critique call
\* before the initial plan was obtained, no tool invocation before the
\* reflection loop ended, no synthesis call before the whole tool_calls list
\* was gone through.
C16_StageOrder ==
    /\ \A i, j \in 1..Len(trace) : i < j => Stage(trace[i]) <= Stage(trace[j])
    /\ op = "execute" =>
          /\ Calls("get_plan") > 0
                => (trace[1] = "safety_check" /\ ClassifiedSafe)
          /\ Calls("reflect_on_plan") > 0
                => (Calls("get_plan") = 1 /\ agent_history # <<>>)
          /\ Calls("tool") > 0
                => (pc \in {"tools", "done"} /\ ReflectionLoopEnded)
    /\ Calls("generate") > 0 => ToolLoopEnded

C16_Witness ==
    /\ op = "execute" /\ pc = "done"
    /\ trace = <<"safety_check", "get_plan", "reflect_on_plan",
                 "get_plan_revision", "reflect_on_plan", "tool">>
    /\ current_plan # initial_plan

\* C17: the tool invocations of one plan happen in the order of its
\* tool_calls list, one at a time: every invocation is for the entry at the
\* current position, which lies after every entry invoked before, and a
\* result is only ever added, by the step that invoked its tool, behind the
\* results collected so far.
C17_ToolsInListOrder ==
    [][/\ invoked' # invoked
            => /\ invoked' = Append(invoked, idx)
               /\ \A k \in 1..Len(invoked) : invoked[k] < idx
               /\ idx' = idx + 1 \/ pc' = "done"
       /\ results' # results
            => /\ invoked' # invoked
               /\ Len(results') = Len(results) + 1
               /\ SubSeq(results', 1, Len(results)) = results
               /\ op = "execute_plan"
                    => results'[Len(results')].tool = current_plan.tool_calls[idx]]_vars

C17_Witness ==
    /\ op = "execute_plan" /\ pc = "done"
    /\ current_plan.tool_calls = <<"google_search", "wikipedia_search", "google_search">>
    /\ tools = {"google_search"}
    /\ invoked = <<1, 3>>
    /\ Len(results) = 2

\* C18: when the safety classification call itself fails, the query is not
\* treated as safe: the failure leaves Agent.execute as an exception and no
\* planner, critique or tool call is issued for the query.
C18_SafetyFailurePropagates ==
    (op = "execute" /\ pc # "safety" /\ classification = <<>>)
        => /\ pc = "done"
           /\ ret.type = "raise"
           /\ ret.exception = "safety_check"
           /\ trace = <<"safety_check">>

C18_Witness ==
    /\ op = "execute" /\ pc = "done"
    /\ classification = <<>>
    /\ ret.type = "raise"
    /\ trace = <<"safety_check">>
    /\ agent_history = <<>>

\* xs goes on as ys: nothing removed, nothing moved, nothing changed
Extends(ys, xs) ==
    /\ Len(ys) >= Len(xs)
    /\ SubSeq(ys, 1, Len(xs)) = xs

\* C19: the Interaction History is append-only: whatever step is taken
\* (add_interaction, the reads of the history, the steps of a query), every
\* entry stays where it is and the length never decreases, unless the step is
\* an explicit clear_interaction_history.  (The list of Agent.execute keeps
\* its entries too; only the plan and timestamp of its last entry change.)
C19_HistoryAppendOnly ==
    [][\/ /\ Extends(sm_history', sm_history)
          /\ Len(agent_history') >= Len(agent_history)
          /\ \A i \in 1..Len(agent_history) :
                /\ agent_history'[i].query = agent_history[i].query
                /\ i < Len(agent_history) => agent_history'[i] = agent_history[i]
       \/ clear_interaction_history]_vars

C19_Witness ==
    /\ op = "reflect_and_improve" /\ pc = "done"
    /\ Len(sm_history) = 3
    /\ sm_history[1] = EarlierInteraction(0)
    /\ sm_history[2].query = "q1" /\ sm_history[3].query = "q1"
    /\ sm_history[2].plan # sm_history[3].plan
    /\ sm_history[2].timestamp < sm_history[3].timestamp

\* the history the running operation records its interaction in
HistoryOf(o) == IF o = "execute" THEN agent_history ELSE sm_history

\* the running query has recorded its Interaction
Recorded ==
    \/ op = "execute" /\ agent_history # <<>>
    \/ op = "reflect_and_improve" /\ iteration > 0

\* the plan the running query is reasoning about
PlanInHand ==
    IF op = "execute" /\ ~GetRequiresTools(initial_plan)
    THEN initial_plan
    ELSE current_plan

\* C20: at every point of a query's processing after its Interaction was
\* recorded, the last entry of the history holds the query and the plan in
\* hand: the current plan while the reflection loop runs (also right after
\* a revision replaced it), the final plan (alone or in the composite) once
\* the loop has ended.
C20_LastEntryIsCurrent ==
    (InLoopOp /\ Recorded)
        => LET h == HistoryOf(op)
               last == h[Len(h)]
           IN /\ last.query = user_query
              /\ \/ last.plan = PlanInHand
                 \/ last.plan = Composite(initial_plan, reflection_history, PlanInHand)

\* C21: the shared History is safe only with one query in flight.  A query
\* builds its critique prompt from the entry appended last to the shared
\* History, whichever query appended it; with a second query running the
\* loop at the same time there is an interleaving (C21_Witness) in which the
\* prompt built for one query embeds the query and plan the other appended.
C21_PromptEmbedsLastAppended ==
    [][critique_prompt' # critique_prompt
          => /\ sm_history # <<>>
             /\ critique_prompt'.user_query = sm_history[Len(sm_history)].query
             /\ critique_prompt'.generated_plan = sm_history[Len(sm_history)].plan]_vars

C21_Witness ==
    /\ op = "reflect_and_improve"
    /\ user_query = "q1"
    /\ Calls("reflect_on_plan") = 1
    /\ critique_prompt.kind = "prompt"
    /\ critique_prompt.user_query = OtherQuery
    /\ critique_prompt.generated_plan # current_plan
    /\ \E i \in 1..Len(sm_history) : sm_history[i].query = "q1"

\* the answers to a critique request that give no verdict: the call raises,
\* or its content is empty or not JSON
FailedCritiques == {r \in VerdictResponses : r.kind # "json"}

\* C22: a reflection iteration whose critique call raises or whose verdict
\* cannot be parsed records one synthetic verdict with requires_changes =
\* false, leaves the current plan unchanged, consumes exactly one iteration
\* and does not end the loop: the loop is over after it only when the failed
\* iteration was the last one.
C22_FailedCritiqueIsOneIteration ==
    [][(\E r \in FailedCritiques : execute_reflect(r) \/ reflect_critique(r))
          => /\ Len(reflection_history') = Len(reflection_history) + 1
             /\ SubSeq(reflection_history', 1, Len(reflection_history)) = reflection_history
             /\ ~Parsed(reflection_history'[Len(reflection_history')])
             /\ reflection_history'[Len(reflection_history')].requires_changes = "false"
             /\ current_plan' = current_plan
             /\ iteration' = iteration + 1
             /\ pc' = "loop"
             /\ LoopExits(pc', iteration', max_iter) <=> iteration' >= max_iter]_vars

C22_Witness ==
    /\ op = "execute" /\ pc = "revise"
    /\ iteration = 2
    /\ reflection_history = <<SyntheticVerdict, MkVerdict("true", "r1")>>
    /\ current_plan = initial_plan
    /\ Calls("reflect_on_plan") = 2

\* the answers to a revision request that are empty or cannot be parsed
FailedRevisions ==
    {r \in PlanResponses(RevisedPlans) : r.kind \in {"empty", "garbage"}}

ParsedRevisions == {r \in PlanResponses(RevisedPlans) : r.kind = "json"}

\* C23: when the revision call of an iteration returns an empty or
\* unparseable plan, the current plan stays the plan it was and the loop
\* goes on with the next iteration (if there is one); inside the loop the
\* current plan changes only to a successfully parsed revision, so the final
\* plan is the initial plan or the latest parsed revision.
C23_FailedRevisionKeepsPlan ==
    [][/\ (\E r \in FailedRevisions : execute_revise(r) \/ reflect_revise(r))
            => /\ current_plan' = current_plan
               /\ iteration' = iteration
               /\ pc' = "loop"
               /\ LoopExits(pc', iteration', max_iter) <=> iteration >= max_iter
       /\ (InLoopOp /\ pc \in {"loop", "revise", "finalize"} /\ current_plan' # current_plan)
            => \E r \in ParsedRevisions :
                  /\ execute_revise(r) \/ reflect_revise(r)
                  /\ current_plan' = r.plan]_vars

C23_Witness ==
    /\ op = "reflect_and_improve" /\ pc = "done"
    /\ max_iter = 2 /\ iteration = 2
    /\ Calls("get_plan_revision") = 2
    /\ reflection_history = <<MkVerdict("true", "r1"), SyntheticVerdict, MkVerdict("true", "r1")>>
    /\ current_plan = MkPlan("false", "d1", FALSE, <<>>)
    /\ initial_plan \in ToolPlans

\* C24: exactly one verdict is appended to reflection_history per iteration
\* that runs: its length equals the number of iterations run and never
\* exceeds max_reflection_iterations, also when the critique of an iteration
\* succeeded and its revision call then failed.
C24_OneVerdictPerIteration ==
    InLoopOp
        => /\ Len(reflection_history) = iteration
           /\ max_iter >= 0 => Len(reflection_history) <= max_iter

\* C25: with one query in flight, the critique prompt built in an iteration
\* embeds the query being processed and the plan that is current at the
\* start of that iteration; never the plan of an earlier iteration, the
\* query or plan of an earlier query, or the placeholder.
C25_PromptEmbedsCurrent ==
    [][(InLoopOp /\ Count(trace', "reflect_on_plan") > Calls("reflect_on_plan"))
          => /\ critique_prompt'.kind = "prompt"
             /\ critique_prompt'.user_query = user_query
             /\ critique_prompt'.generated_plan = current_plan]_vars

C25_Witness ==
    /\ op = "reflect_and_improve" /\ pc = "finalize"
    /\ sm_history # <<>> /\ sm_history[1] = EarlierInteraction(0)
    /\ iteration = 2
    /\ current_plan # initial_plan
    /\ critique_prompt.kind = "prompt"
    /\ critique_prompt.user_query = "q1"
    /\ critique_prompt.generated_plan = current_plan

\* C26: every planner call the reflection loop makes after a verdict with
\* requires_changes = true is a revision request: the messages sent hold the
\* original query, the current plan and the verdict, whatever the current
\* plan and the verdict are; it is never sent as an initial request.
C26_RevisionRequest ==
    [][(InLoopOp /\ Count(trace', "get_plan_revision") > Calls("get_plan_revision"))
          => /\ GetRequiresChanges(verdict)
             /\ plan_messages' = [kind |-> "revision", user_query |-> user_query,
                                  plan |-> current_plan, feedback |-> verdict]]_vars

\* C27: whenever execute_plan comes to its synthesis call, the query in the
\* synthesis prompt is the query of the run whose plan is executed (never
\* the query an earlier run left in the History), and building the prompt
\* never fails because the History is empty.
C27_SynthesisQueryIsOwn ==
    (/\ op = "execute_plan" /\ pc \in {"synthesize", "done"}
     /\ ToolLoopEnded
     /\ Len(results) >= 2 /\ ~FormatRaises(results))
        => /\ ret.exception # "get_last_interaction().query"
           /\ synth_prompt.kind = "prompt"
           /\ synth_prompt.original_query \in UserQueries

\* C28: Agent.execute terminates for every query and every
\* max_reflection_iterations >= 0 when every external call eventually
\* returns or fails: a call that has started reaches its end, the
\* reflection loop never runs more than max_reflection_iterations
\* iterations, and the tool loop never goes past the end of tool_calls.
C28_ExecuteTerminates ==
    (op = "execute" /\ max_iter >= 0)
        ~> /\ op = "execute" /\ pc = "done"
           /\ iteration <= max_iter
           /\ idx <= Len(current_plan.tool_calls) + 1

C28_Witness ==
    /\ op = "execute" /\ pc = "done"
    /\ max_iter = 2 /\ iteration = 2
    /\ Calls("get_plan_revision") = 2
    /\ Len(current_plan.tool_calls) = 1
    /\ idx = 2
    /\ invoked = <<1>>

\* C29: Agent.execute rejects a query as unsafe only when the first token of
\* the classification is unsafe: a classification whose first token is safe
\* goes on to the planning call, whatever follows the first token.
C29_SafeFirstTokenProceeds ==
    (op = "execute" /\ classification # <<>>)
        => /\ ret = RetStr(HarmfulMessage) => classification[1] = "unsafe"
           /\ classification[1] = "safe" => (pc = "plan" \/ Calls("get_plan") = 1)

\* C30: the Interaction History changes only after an initial plan was
\* obtained and parsed: the steps of a call of Agent.execute that is rejected
\* as unsafe, or whose initial planning call fails or returns an unparseable
\* plan, leave the history (every entry's query, plan and timestamp) and the
\* tool registry as they were before the call.
C30_NothingRecordedBeforePlan ==
    [][(\/ \E q \in UserQueries, m \in IterationArgs : execute_begin(q, m)
        \/ \E r \in SafetyResponses : execute_safety(r)
        \/ \E r \in PlanResponses(AgentPlans) : r.kind # "json" /\ execute_get_plan(r))
          => /\ agent_history' = agent_history
             /\ sm_history' = sm_history
             /\ tools' = tools]_vars

C30_Witness ==
    /\ op = "execute" /\ pc = "done"
    /\ ret.exception = "json.loads"
    /\ agent_history = <<EarlierAgentInteraction(0)>>
    /\ tools = {"google_search"}
    /\ trace = <<"safety_check", "get_plan">>

====
